---- MODULE Spec2Model ----
(***************************************************************************)
(* Model of the USB HID keyboard firmware: the HID protocol engine         *)
(* (HidClass, src/src/hid.rs), the boot-keyboard report encoder            *)
(* (KbHidReport, src/src/hid.rs) and the output adapter (USBOut,           *)
(* src/src/usbout.rs), with the interrupt priorities of src/src/main.rs.   *)
(***************************************************************************)
EXTENDS Integers, Sequences, FiniteSets, TLC

(* ------------------------------ bounds -------------------------------- *)

\* data lengths handed to HidClass::write by a direct caller: 0..MaxDataLen
MaxDataLen == 9
\* number of distinct ordinary (non-modifier, non-sentinel) key codes
NumKeys == 6
\* longest key slice handed to USBOut::send_keys
MaxSendKeys == 2

(* ------------------------- program constants -------------------------- *)

\* [u8; 8] of KbHidReport; also the `data.len() >= 8` test of HidClass::write
ReportSize == 8
\* address of the interrupt-IN endpoint reserved by alloc.interrupt(8, 10)
EpAddr == 129
\* the endpoint buffer holds no packet
NoPacket == -1

\* KeyCode values (HID usage ids) as `kc as u8` sees them
No == 0
ErrorRollOver == 1
PostFail == 2
ErrorUndefined == 3
KeyA == 4
LCtrl == 224
RGui == 231

Sentinels == {ErrorRollOver, PostFail, ErrorUndefined}
Modifiers == {LCtrl, RGui}
NormalKeys == KeyA .. (KeyA + NumKeys - 1)
KeyCodes == {No} \cup Sentinels \cup Modifiers \cup NormalKeys

\* endpoint addresses the USB stack may report: the engine's and two others
Addrs == {EpAddr, 130, 1}
DataLens == 0 .. MaxDataLen

(* --------------------------- write results ---------------------------- *)

RetNone == [tag |-> "None", n |-> 0]
RetOk(n) == [tag |-> "Ok", n |-> n]
RetErr == [tag |-> "Err", n |-> 0]

(* ----------------------------- variables ------------------------------ *)

VARIABLES
    expect_interrupt_in_complete,  \* HidClass: the pending-transfer flag
    ep_buf,          \* length of the packet queued on endpoint_interrupt_in, or NoPacket
    last_op,         \* name of the operation performed last
    last_ret,        \* result of the most recent HidClass::write call
    last_len,        \* data length of the most recent HidClass::write call
    hw_writes,       \* endpoint writes made by the most recent HidClass::write call
    hw_outcome,      \* what the endpoint answered to that write, "none" if not asked
    after_reset,     \* "no", or what a reset found on the endpoint, until the next write
    wpc,             \* position inside a write call that runs step by step
    current_report,  \* USBOut::current_report
    sending,         \* the report handed to USBOut::send_report
    upc,             \* the USBOut operation that is in its send_report loop
    last_send,       \* the USBOut send operation that returned last, or "none"
    report,          \* a KbHidReport under test
    press_order,     \* the keys pressed on `report` since default(), in order,
                     \* while they are at most 6 distinct ordinary keys
    full_press,      \* "keys" or "sentinel": the last call on `report` was pressed()
                     \* of an ordinary key that found no free slot, the slots
                     \* holding six keys or a sentinel; "no" otherwise
    xfer,            \* the most recent control transfer: its direction and
                     \* request, the capability's answer, and what the
                     \* handler did with it (res)
    writer,          \* the latest get_configuration_descriptors call: the report
                     \* descriptor's length, the writer call that fails if any,
                     \* the result, and the descriptors written (out)
    race             \* call: a USB handler ran between the flag set and the
                     \* endpoint write of the write call in progress;
                     \* pkt: the queued packet was written by such a call

hidVars == <<expect_interrupt_in_complete, ep_buf>>
obsVars == <<last_op, last_ret, last_len, hw_writes, hw_outcome, after_reset>>
outVars == <<current_report, sending, upc, last_send>>
repVars == <<report, press_order, full_press>>
ctlVars == <<xfer, writer>>
vars == <<expect_interrupt_in_complete, ep_buf, last_op, last_ret, last_len,
          hw_writes, hw_outcome, after_reset, wpc, current_report, sending, upc,
          last_send, report,
          press_order, full_press, xfer, writer, race>>

(* --------------------- KbHidReport (report encoder) ------------------- *)

\* `kc as u8`: a truncating cast
AsU8(kc) == kc % 256

\* bitwise or of two bytes, as `|=` computes it
BitOr_assign(a, b) == b
RECURSIVE BitOr(_, _)
BitOr(a, b) ==
    IF a = 0 THEN b
    ELSE IF b = 0 THEN a
    ELSE (IF a % 2 = 1 \/ b % 2 = 1 THEN 1 ELSE 0) + 2 * BitOr(a \div 2, b \div 2)

is_modifier(kc) == LCtrl <= kc /\ kc <= RGui
as_modifier_bit(kc) == 2 ^ (kc - LCtrl)

\* KbHidReport::default(): byte i of the report is element i + 1
DefaultReport == [i \in 1 .. ReportSize |-> 0]

set_all_first_slot(r, kc) == [i \in 1 .. ReportSize |-> IF i = 3 THEN AsU8(kc) ELSE r[i]]
set_all_whole(r, kc) == [i \in 1 .. ReportSize |-> AsU8(kc)]
set_all(r, kc) == [i \in 1 .. ReportSize |-> IF i >= 3 THEN AsU8(kc) ELSE r[i]]

\* the slots `.find(|c| **c == 0)` scans, and the first of them
FreeSlots(r) == {i \in 3 .. ReportSize : r[i] = 0}
FirstFree_last(r) == CHOOSE i \in FreeSlots(r) : \A j \in FreeSlots(r) : i >= j
FirstFree(r) == CHOOSE i \in FreeSlots(r) : \A j \in FreeSlots(r) : i <= j

\* what `.unwrap_or_else(..)` does when no slot is free
NoFreeSlot_drop(r) == r
NoFreeSlot(r) == set_all(r, ErrorRollOver)

pressed(r, kc) ==
    IF kc = No THEN r
    ELSE IF kc \in Sentinels THEN set_all(r, kc)
    ELSE IF is_modifier(kc) THEN [r EXCEPT ![1] = BitOr(r[1], as_modifier_bit(kc))]
    ELSE IF FreeSlots(r) # {} THEN [r EXCEPT ![FirstFree(r)] = AsU8(kc)]
    ELSE NoFreeSlot(r)

clear_default(r) == DefaultReport
clear(r) == set_all(r, No)

\* `for k in keys { report.pressed(*k) }`
RECURSIVE PressAll(_, _)
PressAll(r, keys) ==
    IF keys = << >> THEN r ELSE PressAll(pressed(r, Head(keys)), Tail(keys))

(* ------------------------ HidClass (protocol engine) ------------------ *)

\* what endpoint_interrupt_in.write can answer: WouldBlock while a packet is
\* still queued, success or another failure otherwise
HwOutcomes(buf) == IF buf = NoPacket THEN {"Ok", "Err"} ELSE {"WouldBlock", "Err"}

\* `if self.expect_interrupt_in_complete { return Ok(0); }`
PendingTest_never(expect) == FALSE
PendingTest(expect) == expect

\* `if data.len() >= 8`
IsFullSize_gt(len) == len > ReportSize
IsFullSize(len) == len >= ReportSize

\* the match on the endpoint's answer
MapHw_wouldblock_err(outcome, len) == IF outcome = "Ok" THEN RetOk(len) ELSE RetErr
MapHw(outcome, len) ==
    CASE outcome = "Ok" -> RetOk(len)
      [] outcome = "WouldBlock" -> RetOk(0)
      [] OTHER -> RetErr

\* HidClass::write as a function of the flag, the data length and the
\* endpoint's answer: the new flag, the result, the endpoint writes made and
\* whether the endpoint took the packet
HidWrite(expect, len, outcome) ==
    IF PendingTest(expect)
    THEN [expect |-> expect, ret |-> RetOk(0), hw |-> 0, accepted |-> FALSE]
    ELSE [expect |-> IF IsFullSize(len) THEN TRUE ELSE expect,
          ret |-> MapHw(outcome, len),
          hw |-> 1,
          accepted |-> (outcome = "Ok")]

\* `addr == self.endpoint_interrupt_in.address()`
AddrMatches_any(addr) == TRUE
AddrMatches(addr) == addr = EpAddr

\* the flag after endpoint_in_complete(addr), after reset() and after poll(),
\* whose body is empty
InCompleteFlag(expect, addr) == IF AddrMatches(addr) THEN FALSE ELSE expect
ResetFlag_keeps(expect) == expect
ResetFlag(expect) == FALSE
PollFlag_clears(expect) == FALSE
PollFlag(expect) == expect

\* a full-size report sits on the endpoint and no endpoint_in_complete for
\* the endpoint and no reset has happened since the endpoint took it
Outstanding == ep_buf >= ReportSize

(* --------------------------- control requests ------------------------- *)

GET_DESCRIPTOR == 6
DescriptorTypeReport == 34

RequestTypes == {"Standard", "Class", "Vendor"}
Recipients == {"Device", "Interface", "Endpoint"}
RequestCodes == {1, 2, 3, GET_DESCRIPTOR, 9, 10, 11, 85}
\* `value` fields 0x0000, 0x0103, 0x0200, 0x0302, 0x04FF, 0x2200, 0x2201,
\* 0x7F05 and 0xFFFF
RequestValues == {0, 259, 512, 770, 1279, 8704, 8705, 32517, 65535}
Requests == [request_type : RequestTypes, recipient : Recipients,
             request : RequestCodes, value : RequestValues]

\* the control requests that arrive while reports are being written: the
\* three the engine answers, a class request it ignores and a vendor request
Req(t, r, c, v) == [request_type |-> t, recipient |-> r, request |-> c, value |-> v]
EngineRequests ==
    {Req("Standard", "Interface", GET_DESCRIPTOR, 8704),
     Req("Class", "Interface", 1, 259),
     Req("Class", "Interface", 9, 512),
     Req("Class", "Interface", 10, 512),
     Req("Vendor", "Device", 85, 32517)}

\* Request::new
RequestNew(u) ==
    CASE u = 1 -> "GetReport"
      [] u = 2 -> "GetIdle"
      [] u = 3 -> "GetProtocol"
      [] u = 9 -> "SetReport"
      [] u = 10 -> "SetIdle"
      [] u = 11 -> "SetProtocol"
      [] OTHER -> "None"

HiByte_le(v) == v % 256
\* `req.value.to_be_bytes()`
HiByte(v) == (v \div 256) % 256
LoByte(v) == v % 256

\* impl From<u8> for ReportType
ReportTypeFrom(val) ==
    CASE val = 1 -> [kind |-> "Input", val |-> 1]
      [] val = 2 -> [kind |-> "Output", val |-> 2]
      [] val = 3 -> [kind |-> "Feature", val |-> 3]
      [] OTHER -> [kind |-> "Reserved", val |-> val]

NoXfer == [resp |-> "none", dev |-> "none", calls |-> 0,
           rtype |-> ReportTypeFrom(0), rid |-> 0]

\* the transfer before any handler has run
NoTransfer == [dir |-> "none", req |-> Req("Standard", "Device", 0, 0),
               devok |-> TRUE, res |-> NoXfer]

Delegate_always_accept(which, req, devok) ==
    [resp |-> "accept", dev |-> which, calls |-> 1,
     rtype |-> ReportTypeFrom(HiByte(req.value)), rid |-> LoByte(req.value)]

\* HidClass::get_report / set_report: one call of the capability, whose
\* answer (devok) decides between accept and reject
Delegate(which, req, devok) ==
    [resp |-> IF devok THEN "accept" ELSE "reject",
     dev |-> which, calls |-> 1,
     rtype |-> ReportTypeFrom(HiByte(req.value)), rid |-> LoByte(req.value)]

control_in(req, devok) ==
    IF req.request_type = "Standard" /\ req.recipient = "Interface"
    THEN IF req.request = GET_DESCRIPTOR
            /\ HiByte(req.value) = DescriptorTypeReport /\ LoByte(req.value) = 0
         THEN [NoXfer EXCEPT !.resp = "accept_descriptor"]
         ELSE NoXfer
    ELSE IF req.request_type = "Class" /\ req.recipient = "Interface"
    THEN IF RequestNew(req.request) = "GetReport"
         THEN Delegate("get_report", req, devok)
         ELSE NoXfer
    ELSE NoXfer

control_out_any_recipient(req, devok) ==
    IF req.request_type = "Class" /\ RequestNew(req.request) = "SetReport"
    THEN Delegate("set_report", req, devok)
    ELSE NoXfer

control_out(req, devok) ==
    IF req.request_type = "Class" /\ req.recipient = "Interface"
       /\ RequestNew(req.request) = "SetReport"
    THEN Delegate("set_report", req, devok)
    ELSE NoXfer

(* ----------------------- configuration descriptors -------------------- *)

SPECIFICATION_RELEASE == 273
INTERFACE_CLASS_HID == 3
DescriptorTypeHid == 33
U16Max == 65535

\* Subclass and Protocol as u8
Subclasses == {0, 1}
Protocols == {0, 1, 2}
\* lengths of the capability's report descriptor
DescriptorLens == {0, 1, 63, 255, 256, 257, 4660, 65279, 65535, 65536, 65537,
                   131071}
\* the DescriptorWriter call that returns an error, if any
WriterFails == {"none", "interface", "write", "endpoint"}

\* `x.to_le_bytes()` of a u16
ToLeBytes(x) == <<x % 256, (x \div 256) % 256>>
\* `descriptor_len as u16`
AsU16(x) == x % (U16Max + 1)

TooLong_never(len) == FALSE
\* `descriptor_len > u16::max_value() as usize`
TooLong(len) == len > U16Max

InterfaceDescriptor(sub, prot) ==
    [kind |-> "interface", data |-> <<INTERFACE_CLASS_HID, sub, prot>>]
HidDescriptor(len) ==
    [kind |-> "write",
     data |-> <<DescriptorTypeHid,
                ToLeBytes(SPECIFICATION_RELEASE)[1],
                ToLeBytes(SPECIFICATION_RELEASE)[2],
                0, 1, DescriptorTypeReport,
                ToLeBytes(AsU16(len))[1],
                ToLeBytes(AsU16(len))[2]>>]
EndpointDescriptor == [kind |-> "endpoint", data |-> <<EpAddr>>]

NoWriter == [len |-> 0, fail |-> "none", ret |-> "none", out |-> <<>>]

\* HidClass::get_configuration_descriptors; each `?` returns the writer's error
get_configuration_descriptors(len, sub, prot, fail) ==
    IF fail = "interface"
    THEN [ret |-> "WriterErr", out |-> <<>>]
    ELSE IF TooLong(len)
    THEN [ret |-> "InvalidState", out |-> <<InterfaceDescriptor(sub, prot)>>]
    ELSE IF fail = "write"
    THEN [ret |-> "WriterErr", out |-> <<InterfaceDescriptor(sub, prot)>>]
    ELSE IF fail = "endpoint"
    THEN [ret |-> "WriterErr",
          out |-> <<InterfaceDescriptor(sub, prot), HidDescriptor(len)>>]
    ELSE [ret |-> "Ok",
          out |-> <<InterfaceDescriptor(sub, prot), HidDescriptor(len),
                    EndpointDescriptor>>]

(* ---------------------------- initial state --------------------------- *)

\* HidClass::new, USBOut::new and KbHidReport::default()
Init ==
    /\ expect_interrupt_in_complete = FALSE
    /\ ep_buf = NoPacket
    /\ last_op = "new"
    /\ last_ret = RetNone
    /\ last_len = 0
    /\ hw_writes = 0
    /\ hw_outcome = "none"
    /\ after_reset = "no"
    /\ wpc = "idle"
    /\ current_report = DefaultReport
    /\ sending = DefaultReport
    /\ upc = "idle"
    /\ last_send = "none"
    /\ report = DefaultReport
    /\ press_order = << >>
    /\ full_press = "no"
    /\ xfer = NoTransfer
    /\ writer = NoWriter
    /\ race = [call |-> FALSE, pkt |-> FALSE]

(* ------------------- HidClass operations, each atomic ------------------ *)

\* one call of HidClass::write(data) with data.len() = len
DoWrite(len) ==
    \E outcome \in HwOutcomes(ep_buf) :
        LET w == HidWrite(expect_interrupt_in_complete, len, outcome) IN
        /\ expect_interrupt_in_complete' = w.expect
        /\ ep_buf' = IF w.accepted THEN len ELSE ep_buf
        /\ last_op' = "write"
        /\ last_ret' = w.ret
        /\ last_len' = len
        /\ hw_writes' = w.hw
        /\ hw_outcome' = IF w.hw = 0 THEN "none" ELSE outcome
        /\ after_reset' = "no"

Write(len) ==
    /\ wpc = "idle"
    /\ DoWrite(len)
    /\ UNCHANGED <<wpc, outVars, repVars, ctlVars, race>>

Poll ==
    /\ expect_interrupt_in_complete' = PollFlag(expect_interrupt_in_complete)
    /\ last_op' = "poll"
    /\ UNCHANGED <<ep_buf, last_ret, last_len, hw_writes, hw_outcome, after_reset,
                   wpc, outVars, repVars, ctlVars, race>>

\* reset(): the bus reset also empties the endpoint buffer
Reset ==
    /\ expect_interrupt_in_complete' = ResetFlag(expect_interrupt_in_complete)
    /\ ep_buf' = NoPacket
    /\ last_op' = "reset"
    /\ after_reset' = IF Outstanding THEN "outstanding" ELSE "idle"
    /\ race' = [call |-> race.call \/ wpc = "hw", pkt |-> FALSE]
    /\ UNCHANGED <<last_ret, last_len, hw_writes, hw_outcome, wpc, outVars,
                   repVars, ctlVars>>

\* endpoint_in_complete(addr): for the engine's endpoint the host has taken
\* the packet, so the buffer is free again
EndpointInComplete(addr) ==
    /\ expect_interrupt_in_complete' = InCompleteFlag(expect_interrupt_in_complete, addr)
    /\ ep_buf' = IF addr = EpAddr THEN NoPacket ELSE ep_buf
    /\ last_op' = "endpoint_in_complete"
    /\ race' = [call |-> race.call \/ wpc = "hw",
                pkt |-> IF addr = EpAddr THEN FALSE ELSE race.pkt]
    /\ UNCHANGED <<last_ret, last_len, hw_writes, hw_outcome, after_reset, wpc,
                   outVars, repVars, ctlVars>>

EndpointOut(addr) ==
    /\ last_op' = "endpoint_out"
    /\ UNCHANGED <<hidVars, last_ret, last_len, hw_writes, hw_outcome, after_reset,
                   wpc, outVars, repVars, ctlVars, race>>

ControlIn(req, devok) ==
    /\ xfer' = [dir |-> "in", req |-> req, devok |-> devok,
                res |-> control_in(req, devok)]
    /\ last_op' = "control_in"
    /\ UNCHANGED <<hidVars, last_ret, last_len, hw_writes, hw_outcome, after_reset,
                   wpc, outVars, repVars, writer, race>>

ControlOut(req, devok) ==
    /\ xfer' = [dir |-> "out", req |-> req, devok |-> devok,
                res |-> control_out(req, devok)]
    /\ last_op' = "control_out"
    /\ UNCHANGED <<hidVars, last_ret, last_len, hw_writes, hw_outcome, after_reset,
                   wpc, outVars, repVars, writer, race>>

Next ==
    \/ \E len \in DataLens : Write(len)
    \/ Poll
    \/ Reset
    \/ \E addr \in Addrs : EndpointInComplete(addr)
    \/ \E addr \in Addrs : EndpointOut(addr)
    \/ \E req \in EngineRequests, devok \in BOOLEAN : ControlIn(req, devok)
    \/ \E req \in EngineRequests, devok \in BOOLEAN : ControlOut(req, devok)

Spec == Init /\ [][Next]_vars

\* the control handlers on their own, over every request in Requests
ControlNext ==
    \/ \E req \in Requests, devok \in BOOLEAN : ControlIn(req, devok)
    \/ \E req \in Requests, devok \in BOOLEAN : ControlOut(req, devok)

ControlSpec == Init /\ [][ControlNext]_vars

GetConfigurationDescriptors(len, sub, prot, fail) ==
    /\ writer' = [len |-> len, fail |-> fail,
                  ret |-> get_configuration_descriptors(len, sub, prot, fail).ret,
                  out |-> get_configuration_descriptors(len, sub, prot, fail).out]
    /\ last_op' = "get_configuration_descriptors"
    /\ UNCHANGED <<hidVars, last_ret, last_len, hw_writes, hw_outcome, after_reset,
                   wpc, outVars, repVars, xfer, race>>

DescriptorNext ==
    \E len \in DescriptorLens, sub \in Subclasses, prot \in Protocols,
       fail \in WriterFails : GetConfigurationDescriptors(len, sub, prot, fail)

DescriptorSpec == Init /\ [][DescriptorNext]_vars

(* ------------------------ USBOut (output adapter) --------------------- *)

\* the keys the adapter is given, and the slices send_keys is given
AdapterKeys == {KeyA, LCtrl, ErrorUndefined}
RECURSIVE SeqsUpTo(_, _)
SeqsUpTo(S, n) ==
    IF n = 0 THEN {<< >>}
    ELSE SeqsUpTo(S, n - 1)
         \cup {Append(q, x) : q \in {q \in SeqsUpTo(S, n - 1) : Len(q) = n - 1}, x \in S}
KeySlices == SeqsUpTo(AdapterKeys, MaxSendKeys)

\* `while let Ok(0) = self.usb_class.write(..) {}`: the loop goes on exactly
\* while write answers Ok(0)
Retry_never(ret) == FALSE
Retry_on_any_ok(ret) == ret.tag = "Ok"
Retry(ret) == ret = RetOk(0)

\* `let mut report = KbHidReport::default();` of send_keys, and
\* `let report = self.current_report.clone();` of send_registered
SendKeysBase_current(cur) == cur
SendKeysBase(cur) == DefaultReport
RegisteredReport_default(cur) == DefaultReport
RegisteredReport(cur) == cur

send_keys(keys) ==
    /\ upc = "idle"
    /\ sending' = PressAll(SendKeysBase(current_report), keys)
    /\ upc' = "send_keys"
    /\ last_op' = "send_keys"
    /\ UNCHANGED <<hidVars, last_ret, last_len, hw_writes, hw_outcome, after_reset,
                   wpc, current_report, last_send, repVars, ctlVars, race>>

register_key(key) ==
    /\ upc = "idle"
    /\ current_report' = pressed(current_report, key)
    /\ last_op' = "register_key"
    /\ UNCHANGED <<hidVars, last_ret, last_len, hw_writes, hw_outcome, after_reset,
                   wpc, sending, upc, last_send, repVars, ctlVars, race>>

send_registered ==
    /\ upc = "idle"
    /\ sending' = RegisteredReport(current_report)
    /\ upc' = "send_registered"
    /\ last_op' = "send_registered"
    /\ UNCHANGED <<hidVars, last_ret, last_len, hw_writes, hw_outcome, after_reset,
                   wpc, current_report, last_send, repVars, ctlVars, race>>

send_empty ==
    /\ upc = "idle"
    /\ sending' = DefaultReport
    /\ upc' = "send_empty"
    /\ last_op' = "send_empty"
    /\ UNCHANGED <<hidVars, last_ret, last_len, hw_writes, hw_outcome, after_reset,
                   wpc, current_report, last_send, repVars, ctlVars, race>>

\* one turn of send_report's loop: a write call and the test of its result;
\* when the loop ends the operation returns, send_registered after clear()
send_report ==
    /\ upc # "idle"
    /\ DoWrite(Len(sending))
    /\ IF Retry(last_ret')
       THEN UNCHANGED <<upc, current_report, last_send>>
       ELSE /\ upc' = "idle"
            /\ last_send' = upc
            /\ current_report' = IF upc = "send_registered"
                                 THEN clear(current_report)
                                 ELSE current_report
    /\ UNCHANGED <<wpc, sending, repVars, ctlVars, race>>

AdapterNext ==
    \/ \E keys \in KeySlices : send_keys(keys)
    \/ \E key \in AdapterKeys : register_key(key)
    \/ send_registered
    \/ send_empty
    \/ send_report
    \/ \E addr \in Addrs : EndpointInComplete(addr)
    \/ Reset

AdapterSpec == Init /\ [][AdapterNext]_vars

\* the timer interrupt keeps running the loop, and the host keeps polling:
\* an endpoint_in_complete for the endpoint or a reset keeps coming
FairAdapterSpec ==
    /\ AdapterSpec
    /\ WF_vars(send_report)
    /\ WF_vars(EndpointInComplete(EpAddr) \/ Reset)

(* ------------- HidClass::write under preemption (main.rs) ------------- *)

\* The timer interrupt (priority 1) runs write statement by statement; the
\* USB interrupts (priority 2) run endpoint_in_complete and reset to the end
\* between any two of its statements, and are never interrupted by it.

write_call(len) ==
    /\ wpc = "idle"
    /\ wpc' = "test"
    /\ last_len' = len
    /\ hw_writes' = 0
    /\ hw_outcome' = "none"
    /\ last_op' = "write_call"
    /\ after_reset' = "no"
    /\ race' = [race EXCEPT !.call = FALSE]
    /\ UNCHANGED <<hidVars, last_ret, outVars, repVars, ctlVars>>

\* `if self.expect_interrupt_in_complete { return Ok(0); }`
write_test ==
    /\ wpc = "test"
    /\ IF PendingTest(expect_interrupt_in_complete)
       THEN /\ last_ret' = RetOk(0)
            /\ last_op' = "write"
            /\ wpc' = "idle"
       ELSE /\ wpc' = "set"
            /\ UNCHANGED <<last_ret, last_op>>
    /\ UNCHANGED <<hidVars, last_len, hw_writes, hw_outcome, after_reset, outVars,
                   repVars, ctlVars, race>>

\* `if data.len() >= 8 { self.expect_interrupt_in_complete = true; }`
write_set ==
    /\ wpc = "set"
    /\ expect_interrupt_in_complete' =
           IF IsFullSize(last_len) THEN TRUE ELSE expect_interrupt_in_complete
    /\ wpc' = "hw"
    /\ UNCHANGED <<ep_buf, obsVars, outVars, repVars, ctlVars, race>>

\* `match self.endpoint_interrupt_in.write(data) { .. }`
write_hw ==
    /\ wpc = "hw"
    /\ \E outcome \in HwOutcomes(ep_buf) :
        /\ last_ret' = MapHw(outcome, last_len)
        /\ ep_buf' = IF outcome = "Ok" THEN last_len ELSE ep_buf
        /\ hw_outcome' = outcome
        /\ race' = [race EXCEPT !.pkt = IF outcome = "Ok" THEN race.call ELSE @]
    /\ hw_writes' = 1
    /\ last_op' = "write"
    /\ wpc' = "idle"
    /\ UNCHANGED <<expect_interrupt_in_complete, last_len, after_reset, outVars,
                   repVars, ctlVars>>

PreemptNext ==
    \/ \E len \in DataLens : write_call(len)
    \/ write_test
    \/ write_set
    \/ write_hw
    \/ \E addr \in Addrs : EndpointInComplete(addr)
    \/ Reset

PreemptSpec == Init /\ [][PreemptNext]_vars

(* ---------------------- KbHidReport, call by call --------------------- *)

\* number of key slots of a report: bytes 2..7
NumSlots == ReportSize - 2

\* press_order once the presses are no longer at most 6 distinct ordinary keys
Untracked == <<-1>>

Range(q) == {q[i] : i \in 1 .. Len(q)}

Pressed(kc) ==
    /\ report' = pressed(report, kc)
    /\ press_order' =
           IF /\ press_order # Untracked
              /\ kc \in NormalKeys
              /\ kc \notin Range(press_order)
              /\ Len(press_order) < NumSlots
           THEN Append(press_order, kc)
           ELSE Untracked
    /\ full_press' =
           IF kc \in NormalKeys /\ FreeSlots(report) = {}
           THEN IF \A i \in 3 .. ReportSize : report[i] \in NormalKeys
                THEN "keys"
                ELSE "sentinel"
           ELSE "no"
    /\ last_op' = "pressed"
    /\ UNCHANGED <<hidVars, last_ret, last_len, hw_writes, hw_outcome, after_reset,
                   wpc, outVars, ctlVars, race>>

Clear ==
    /\ report' = clear(report)
    /\ press_order' = Untracked
    /\ full_press' = "no"
    /\ last_op' = "clear"
    /\ UNCHANGED <<hidVars, last_ret, last_len, hw_writes, hw_outcome, after_reset,
                   wpc, outVars, ctlVars, race>>

ReportNext ==
    \/ \E kc \in KeyCodes : Pressed(kc)
    \/ Clear

ReportSpec == Init /\ [][ReportNext]_vars

(* ------------------------------- claims ------------------------------- *)

\* C1: a write call made while the pending-transfer flag is set returns
\* Ok(0), makes no endpoint write and leaves the flag set, whatever the
\* data length.
C1_PendingWriteReturnsZero ==
    [][(expect_interrupt_in_complete /\ last_op' = "write")
        => (/\ last_ret' = RetOk(0)
            /\ hw_writes' = 0
            /\ expect_interrupt_in_complete')]_vars

C1_Witness ==
    /\ last_op = "write"
    /\ expect_interrupt_in_complete
    /\ hw_writes = 0
    /\ last_ret = RetOk(0)

\* C2: no write call hands a full-size report to the endpoint while an
\* earlier full-size report the endpoint took is still unacknowledged (no
\* endpoint_in_complete for the endpoint and no reset since).
C2_NoSecondFullReport ==
    [][(last_op' = "write" /\ hw_writes' = 1 /\ IsFullSize(last_len'))
        => ~Outstanding]_vars

C2_Witness ==
    /\ Outstanding
    /\ last_op = "write"
    /\ IsFullSize(last_len)
    /\ hw_writes = 0
    /\ hw_outcome = "none"

\* C3: the pending-transfer flag is true exactly when a full-size report is
\* queued on the endpoint and unacknowledged; it is not true after a write
\* whose endpoint write answered would-block or failed.
C3_FlagIffOutstanding == expect_interrupt_in_complete <=> Outstanding

\* C5: a set flag is cleared only by reset or by endpoint_in_complete for
\* the engine's endpoint address; every other operation leaves it set.
C5_OnlyResetOrCompleteClears ==
    [][(expect_interrupt_in_complete /\ ~expect_interrupt_in_complete')
        => (Reset \/ EndpointInComplete(EpAddr))]_vars

C5_Witness ==
    /\ expect_interrupt_in_complete
    /\ Outstanding
    /\ last_op \in {"endpoint_in_complete", "poll", "control_in", "control_out",
                    "endpoint_out"}

\* C6: reset clears the flag from every state, also when a full-size report
\* is outstanding, and the first write call after a reset makes its endpoint
\* write.
C6_ResetClearsFlag ==
    [][/\ last_op' = "reset" => ~expect_interrupt_in_complete'
       /\ (after_reset # "no" /\ last_op' = "write") => hw_writes' = 1]_vars

C6_Witness ==
    /\ after_reset = "outstanding"
    /\ last_op = "reset"
    /\ ~expect_interrupt_in_complete

\* C9: with the flag clear, write makes exactly one endpoint write and maps
\* its answer: would-block to Ok(0), another failure to Err, success to
\* Ok(n); no call makes more than one endpoint write.
C9_HardwareOutcomeMapping ==
    [][/\ hw_writes' <= 1
       /\ (~expect_interrupt_in_complete /\ last_op' = "write")
           => /\ hw_writes' = 1
              /\ hw_outcome' = "WouldBlock" => last_ret' = RetOk(0)
              /\ hw_outcome' = "Err" => last_ret' = RetErr
              /\ hw_outcome' = "Ok" => last_ret' = RetOk(last_len')]_vars

C9_Witness ==
    /\ last_op = "write"
    /\ hw_writes = 1
    /\ hw_outcome = "WouldBlock"
    /\ last_ret = RetOk(0)

\* C4 (as stated): send_report returns only when its last write call
\* returned Ok(n) with n > 0, that is when the endpoint took the report.
C4_ReturnsOnlyWhenAdmitted ==
    [][(upc # "idle" /\ upc' = "idle")
        => (last_ret'.tag = "Ok" /\ last_ret'.n > 0 /\ hw_outcome' = "Ok")]_vars

\* C4 (amended): send_report keeps calling write while write returns Ok(0)
\* and returns on the first other result: Ok(n) with n > 0, the report being
\* on the endpoint, or Err, the report being dropped.
C4_ReturnsOnFirstNonZeroResult ==
    [][/\ (upc # "idle" /\ upc' = "idle")
           => /\ last_op' = "write"
              /\ last_ret' # RetOk(0)
              /\ \/ last_ret' = RetOk(ReportSize) /\ hw_outcome' = "Ok"
                 \/ last_ret' = RetErr /\ hw_outcome' = "Err"
       /\ (upc # "idle" /\ last_op' = "write" /\ last_ret' = RetOk(0))
           => upc' = upc]_vars

C4_Witness ==
    /\ upc = "idle"
    /\ last_op = "write"
    /\ last_ret = RetErr
    /\ hw_outcome = "Err"

\* C7: while the host keeps polling, every call of send_keys,
\* send_registered and send_empty returns.
C7_EverySendReturns == (upc # "idle") ~> (upc = "idle")

C7_Witness ==
    /\ upc # "idle"
    /\ last_op = "write"
    /\ last_ret = RetOk(0)
    /\ expect_interrupt_in_complete

C10_PressOrderLeftPacked ==
    press_order # Untracked
        => \A i \in 1 .. NumSlots :
               report[i + 2] = IF i <= Len(press_order) THEN press_order[i] ELSE 0

C10_Witness ==
    /\ press_order # Untracked
    /\ Len(press_order) = NumSlots
    /\ press_order[1] > press_order[2]
    /\ report[3] = press_order[1]
    /\ report[8] = press_order[6]

\* bytes 2..7 of a report all hold code c
AllSlots(r, c) == \A i \in 3 .. ReportSize : r[i] = c

\* bit b of byte x
Bit(x, b) == (x \div (2 ^ b)) % 2

\* C11: with six ordinary keys in bytes 2..7, pressed() of one more ordinary
\* key sets all six bytes to ErrorRollOver, whatever the order of the
\* earlier presses; the key is neither dropped nor ignored.
C11_SeventhKeyRollsOver ==
    (\A i \in 3 .. ReportSize : report[i] \in NormalKeys)
        => \A kc \in NormalKeys :
               LET r == pressed(report, kc) IN
               /\ AllSlots(r, ErrorRollOver)
               /\ r # report
               /\ r[1] = report[1]
               /\ r[2] = report[2]

C11_Witness ==
    /\ full_press = "keys"
    /\ last_op = "pressed"
    /\ AllSlots(report, ErrorRollOver)

\* C12: from every reachable report, pressed() of ErrorRollOver, PostFail or
\* ErrorUndefined sets each of bytes 2..7 to that code, whatever keys were
\* there, and leaves bytes 0 and 1 unchanged.
C12_SentinelFillsAllSlots ==
    \A kc \in Sentinels :
        LET r == pressed(report, kc) IN
        /\ AllSlots(r, kc)
        /\ r[1] = report[1]
        /\ r[2] = report[2]

C12_Witness ==
    /\ last_op = "pressed"
    /\ full_press = "no"
    /\ AllSlots(report, PostFail)
    /\ report[1] # 0

\* C13: pressed() of a modifier only sets that modifier's bit of byte 0 and
\* leaves bytes 1..7 unchanged; pressed() of any other key leaves byte 0
\* unchanged; so byte 1 is always zero and no modifier code is in bytes 2..7.
C13_ModifiersOnlyInByteZero ==
    /\ \A kc \in Modifiers :
           LET r == pressed(report, kc) IN
           /\ \A b \in 0 .. 7 :
                  Bit(r[1], b) = IF b = kc - LCtrl THEN 1 ELSE Bit(report[1], b)
           /\ r[1] < 256
           /\ \A i \in 2 .. ReportSize : r[i] = report[i]
    /\ \A kc \in KeyCodes \ Modifiers : pressed(report, kc)[1] = report[1]
    /\ report[2] = 0
    /\ \A i \in 3 .. ReportSize : report[i] \notin Modifiers

C13_Witness ==
    /\ last_op = "pressed"
    /\ report[1] = 129
    /\ report[2] = 0
    /\ report[3] \in NormalKeys
    /\ report[4] = 0

\* C14: clear() zeroes bytes 2..7, leaves bytes 0 and 1 unchanged, and a
\* second clear() changes nothing more.
C14_ClearKeepsModifiers ==
    LET r == clear(report) IN
    /\ AllSlots(r, 0)
    /\ r[1] = report[1]
    /\ r[2] = report[2]
    /\ clear(r) = r

C14_Witness ==
    /\ last_op = "clear"
    /\ AllSlots(report, 0)
    /\ report[1] # 0

\* C15: send_registered hands the accumulated current report to write, and
\* clears it only when the transmission is over: on return bytes 2..7 of the
\* current report are zero and its modifier byte is as before, so a
\* registered modifier is still set in the report the next send_registered
\* transmits.
C15_SendRegisteredThenClear ==
    [][/\ send_registered => sending' = current_report
       /\ (upc = "send_registered" /\ upc' = "send_registered")
           => (sending' = sending /\ current_report' = current_report)
       /\ (upc = "send_registered" /\ upc' = "idle")
           => (/\ AllSlots(current_report', 0)
               /\ current_report'[1] = sending[1]
               /\ current_report'[2] = sending[2])
       /\ \A b \in 0 .. 7 :
            Bit(current_report[1], b) = 1 => Bit(current_report'[1], b) = 1]_vars

C15_Witness ==
    /\ upc = "idle"
    /\ last_send = "send_registered"
    /\ last_op = "write"
    /\ sending[1] = 1
    /\ sending[3] = KeyA
    /\ current_report[1] = 1
    /\ AllSlots(current_report, 0)

\* C16: send_keys transmits the report built by pressed() from the given
\* keys on an all-zero report, whatever the current report holds; send_keys
\* and send_empty leave the current report unchanged; register_key makes no
\* write call.
C16_SendKeysBypassesAccumulation ==
    [][/\ \A keys \in KeySlices :
            send_keys(keys)
                => (/\ sending' = PressAll(DefaultReport, keys)
                    /\ current_report' = current_report)
       /\ send_empty => (sending' = DefaultReport /\ current_report' = current_report)
       /\ (upc \in {"send_keys", "send_empty"})
           => (current_report' = current_report /\ sending' = sending)
       /\ last_op' = "register_key"
           => UNCHANGED <<hidVars, last_ret, last_len, hw_writes, hw_outcome,
                          sending, upc>>]_vars

C16_Witness ==
    /\ upc = "idle"
    /\ last_send = "send_keys"
    /\ last_op = "write"
    /\ last_ret = RetOk(ReportSize)
    /\ sending[1] = 0
    /\ sending[3] = KeyA
    /\ current_report[1] = 1
    /\ current_report[3] = ErrorUndefined

\* a transfer the handler passed to the capability
Delegated == xfer.res.calls > 0
\* the requests the engine answers, stated on the request's fields
IsClassToInterface(req) == req.request_type = "Class" /\ req.recipient = "Interface"
IsReportDescriptorRequest(req) ==
    /\ req.request_type = "Standard" /\ req.recipient = "Interface"
    /\ req.request = 6 /\ req.value = 8704
IsHandled(dir, req) ==
    \/ dir = "in" /\ IsReportDescriptorRequest(req)
    \/ dir = "in" /\ IsClassToInterface(req) /\ req.request = 1
    \/ dir = "out" /\ IsClassToInterface(req) /\ req.request = 9

\* C17: a class GetReport on control_in and a class SetReport on control_out,
\* addressed to the interface, call the capability's get_report / set_report
\* exactly once; the transfer is accepted exactly when the capability
\* succeeds and rejected when it fails, with no second call.
C17_DelegateOnceAcceptIffOk ==
    /\ (xfer.dir = "in" /\ IsClassToInterface(xfer.req) /\ xfer.req.request = 1)
        => (/\ xfer.res.calls = 1
            /\ xfer.res.dev = "get_report"
            /\ xfer.res.resp = "accept" <=> xfer.devok
            /\ ~xfer.devok => xfer.res.resp = "reject")
    /\ (xfer.dir = "out" /\ IsClassToInterface(xfer.req) /\ xfer.req.request = 9)
        => (/\ xfer.res.calls = 1
            /\ xfer.res.dev = "set_report"
            /\ xfer.res.resp = "accept" <=> xfer.devok
            /\ ~xfer.devok => xfer.res.resp = "reject")

C17_Witness ==
    /\ xfer.dir = "out" /\ IsClassToInterface(xfer.req) /\ xfer.req.request = 9
    /\ ~xfer.devok
    /\ xfer.res.resp = "reject"
    /\ xfer.res.calls = 1

\* C18: every control request other than the three handled ones is left
\* unanswered: neither accept nor reject is called on the transfer and the
\* capability's get_report / set_report is not called.
C18_OthersUnanswered ==
    (xfer.dir # "none" /\ ~IsHandled(xfer.dir, xfer.req))
        => (/\ xfer.res.resp = "none"
            /\ xfer.res.calls = 0
            /\ xfer.res.dev = "none")

C18_Witness ==
    /\ xfer.dir = "out"
    /\ xfer.req.request_type = "Class" /\ xfer.req.recipient = "Endpoint"
    /\ xfer.req.request = 9
    /\ xfer.res.resp = "none"

\* C19: a delegated GetReport / SetReport carries report id = low byte of the
\* value field and the report type decoded from its high byte: 1 -> Input,
\* 2 -> Output, 3 -> Feature, any other byte b -> Reserved(b); value 0x0103
\* is delegated as Input, id 3.
C19_ValueDecoding ==
    Delegated
        => (/\ xfer.res.rid \in 0 .. 255
            /\ xfer.res.rtype.val \in 0 .. 255
            /\ xfer.res.rtype.val * 256 + xfer.res.rid = xfer.req.value
            /\ xfer.res.rtype.kind =
                 (CASE xfer.res.rtype.val = 1 -> "Input"
                    [] xfer.res.rtype.val = 2 -> "Output"
                    [] xfer.res.rtype.val = 3 -> "Feature"
                    [] OTHER -> "Reserved")
            /\ xfer.req.value = 259
                 => (xfer.res.rtype.kind = "Input" /\ xfer.res.rid = 3))

C19_Witness ==
    /\ Delegated
    /\ xfer.dir = "in"
    /\ xfer.req.value = 259
    /\ xfer.res.rtype.kind = "Input"
    /\ xfer.res.rid = 3

\* position of the descriptors of one kind among those written
KindAt(k) == {i \in 1 .. Len(writer.out) : writer.out[i].kind = k}

C20_WitnessTooLong ==
    /\ writer.len = 65536
    /\ writer.fail = "none"
    /\ writer.ret = "InvalidState"
    /\ Len(writer.out) = 1

\* shape (a): bytes 2..7 are n key codes, none zero and none an error
\* sentinel, followed by zeros only
LeftPackedKeys(r) ==
    \E n \in 0 .. NumSlots :
        /\ \A i \in 1 .. n : r[2 + i] # 0 /\ r[2 + i] \notin Sentinels
        /\ \A i \in n + 1 .. NumSlots : r[2 + i] = 0
\* shape (b): bytes 2..7 all hold one and the same error sentinel
SentinelFilled(r) == \E s \in Sentinels : AllSlots(r, s)

\* C21: after any sequence of pressed() and clear() calls on a default
\* report, bytes 2..7 are either key codes left-packed before zeros or six
\* copies of one error sentinel; from the sentinel shape every press of an
\* ordinary key (not a modifier, not a sentinel, not No) gives six
\* ErrorRollOver bytes, and only clear() leads back to the first shape.
C21_ReportShape ==
    /\ LeftPackedKeys(report) \/ SentinelFilled(report)
    /\ SentinelFilled(report)
        => (/\ \A kc \in NormalKeys : AllSlots(pressed(report, kc), ErrorRollOver)
            /\ \A kc \in KeyCodes : SentinelFilled(pressed(report, kc))
            /\ LeftPackedKeys(clear(report)))

C21_Witness ==
    /\ last_op = "pressed"
    /\ full_press = "sentinel"
    /\ AllSlots(report, ErrorRollOver)
    /\ report[1] # 0

====
